---- MODULE Spec2Model ----
(***************************************************************************)
(* Verification model of the sugarcane NIR prediction service:             *)
(*   - backend/server.py: module-level artifact loading, ConnectionManager,*)
(*     the /ws/simulation tick loop, /api/config and /api/report;          *)
(*   - trainer.py: train_pls (component selection) and main (the test      *)
(*     pool written for the simulation).                                   *)
(* Floats are modelled by integers (2.0 -> 2, 13.0 -> 13); spectra and     *)
(* ground-truth values by the number of the dataset row they come from.    *)
(***************************************************************************)
EXTENDS Integers, Sequences, FiniteSets, TLC

\* ----------------------------------------------------------------- bounds
NumConns == 2        \* websocket connections opened during a run
MaxPool  == 2        \* largest len(X_test) explored
MaxTicks == 3        \* messages received per connection

\* ------------------------------------------------------ program constants
DefaultNoise     == 2     \* config.get("noiseLevel", 2.0)
DefaultThreshold == 13    \* config.get("threshold", 13.0)

Conns == 1..NumConns

VARIABLES
    \* backend/server.py, serving
    defined,             \* module-level names bound by the startup try block
    poolSize,            \* len(X_test) (= len(y_test)) of the pool on disk
    pc,                  \* per connection: position of websocket_endpoint
    idx,                 \* per connection: the local cursor idx
    active_connections,  \* manager.active_connections (a list)
    outbox,              \* per connection: producers of the texts sent on it
    received,            \* per connection: number of receive_text() results
    lastTick,            \* the most recent loop iteration, of any connection
    httpLast,            \* outcome of the most recent GET /api/config
    \* backend/server.py, POST /api/report
    predicted_pol,       \* data.predicted_pol of the request
    report,              \* the figures drawn into the PDF
    \* trainer.py, train_pls
    cv_i,                \* loop variable i of the component scan
    best_n,
    lowest_mse,
    scores,              \* scores[k]: the CV score computed for i = k
    pls_n,               \* n_components of the returned model (0: none yet)
    \* trainer.py main, then the server replaying what it saved
    n_rows,              \* len(X) = len(y) returned by load_data
    split,               \* the shuffled permutation of train_test_split
    saved,               \* X_test_raw.npy and y_test.npy
    pool,                \* X_test and y_test as loaded by the server
    replay_idx,          \* idx of the replaying session
    payload              \* rows behind noisy_spectrum and actual_pol

serverVars  == <<defined, poolSize, pc, idx, active_connections, outbox,
                 received, lastTick, httpLast>>
reportVars  == <<predicted_pol, report>>
trainerVars == <<cv_i, best_n, lowest_mse, scores, pls_n>>
poolVars    == <<n_rows, split, saved, pool, replay_idx, payload>>

vars == <<serverVars, reportVars, trainerVars, poolVars>>

Range(s) == {s[i] : i \in DOMAIN s}

\* ------------------------------------------------------- startup (37-59)
\* The statements of the try block that bind a name, in program order.
\* "iso_forest.fit" stands for the fitted state reached by line 55.
LoadSteps ==
    <<"pls_model", "wavelengths", "X_test", "y_test", "wavelengths_plot",
      "X_test_prep", "iso_forest", "iso_forest.fit">>

\* Names bound when the try block raises in its k-th statement
\* (k = Len(LoadSteps) + 1: nothing raised).  The except clause only prints.
LoadModels(k) == {LoadSteps[i] : i \in 1..(k - 1)}

AllLoaded == LoadModels(Len(LoadSteps) + 1)

\* ------------------------------------------------------ inbound messages
NoiseValues     == {-1, 5}
ThresholdValues == {12}
PredValues      == {12, 13}
Keys            == {"noiseLevel", "threshold"}

Configs ==
    {[k \in D |-> full[k]] :
        full \in [noiseLevel : NoiseValues, threshold : ThresholdValues],
        D \in SUBSET Keys}

EmptyConfig == [k \in {} |-> 0]

\* A received text: not JSON at all, JSON that is not an object, or an object.
Messages ==
    {[kind |-> "invalid_json", config |-> EmptyConfig],
     [kind |-> "not_object", config |-> EmptyConfig]}
    \cup {[kind |-> "object", config |-> cfg] : cfg \in Configs}

\* dict.get(key, default)
config_get(config, key, default) ==
    IF key \in DOMAIN config THEN config[key] ELSE default

\* line 104
NoiseOf(config) == config_get(config, "noiseLevel", DefaultNoise)

\* line 125, right operand
ThresholdOf(config) == config_get(config, "threshold", DefaultThreshold)

Alert_inclusive(pred_pol, config) == pred_pol <= ThresholdOf(config)

\* line 125
Alert(pred_pol, config) == pred_pol < ThresholdOf(config)

NextIdx_nowrap(i, n) == i + 1

\* line 132
NextIdx(i, n) == (i + 1) % n

SendTargets_broadcast(c) == Range(active_connections)

\* line 129: websocket.send_text goes to the handler's own socket
SendTargets(c) == {c}

\* The exception raised by lines 102-116 for a received text, or "ok" when
\* the payload is built, in the order the statements run.
Compute(c, msg) ==
    CASE msg.kind = "invalid_json" -> "json_error"            \* 102
      [] msg.kind = "not_object" -> "attribute_error"         \* 104
      [] "X_test" \notin defined -> "name_error"              \* 107
      [] idx[c] >= poolSize -> "index_error"                  \* 107-108
      [] "y_test" \notin defined -> "name_error"              \* 108
      [] NoiseOf(msg.config) < 0 -> "value_error"             \* 111 (62)
      [] "pls_model" \notin defined -> "name_error"           \* 115
      [] "iso_forest" \notin defined -> "name_error"          \* 116
      [] "iso_forest.fit" \notin defined -> "not_fitted"      \* 116
      [] OTHER -> "ok"

NoTick ==
    [conn |-> 0, msg |-> [kind |-> "none", config |-> EmptyConfig],
     outcome |-> "none", idx |-> 0, noise |-> 0, threshold |-> 0,
     pred |-> 0, alert |-> FALSE]

\* The server once the module body has run: the try block finished or
\* raised somewhere, and nobody has connected yet.
ServerInit ==
    /\ \E k \in 1..(Len(LoadSteps) + 1) : defined = LoadModels(k)
    /\ poolSize \in 1..MaxPool
    /\ pc = [c \in Conns |-> "init"]
    /\ idx = [c \in Conns |-> 0]
    /\ active_connections = <<>>
    /\ outbox = [c \in Conns |-> <<>>]
    /\ received = [c \in Conns |-> 0]
    /\ lastTick = NoTick
    /\ httpLast = "none"

\* lines 94-96 and 71-73: accept, then register, then idx = 0.  A failed
\* accept raises before the append.
Connect(c) ==
    /\ pc[c] = "init"
    /\ \E accepted \in BOOLEAN :
        IF accepted
        THEN /\ active_connections' = Append(active_connections, c)
             /\ pc' = [pc EXCEPT ![c] = "active"]
             /\ idx' = [idx EXCEPT ![c] = 0]
        ELSE /\ pc' = [pc EXCEPT ![c] = "failed"]
             /\ UNCHANGED <<active_connections, idx>>
    /\ UNCHANGED <<defined, poolSize, outbox, received, lastTick, httpLast>>
    /\ UNCHANGED <<reportVars, trainerVars, poolVars>>

\* list.remove: drops the first occurrence
Remove(s, c) ==
    LET i == CHOOSE j \in DOMAIN s : s[j] = c /\ \A k \in 1..(j - 1) : s[k] # c
    IN  SubSeq(s, 1, i - 1) \o SubSeq(s, i + 1, Len(s))

\* lines 75-76
ManagerDisconnect(c) == Remove(active_connections, c)

\* lines 101 + 134-136: receive_text raises WebSocketDisconnect
Disconnect(c) ==
    /\ pc[c] = "active"
    /\ active_connections' = ManagerDisconnect(c)
    /\ pc' = [pc EXCEPT ![c] = "closed"]
    /\ UNCHANGED <<defined, poolSize, idx, outbox, received, lastTick,
                   httpLast>>
    /\ UNCHANGED <<reportVars, trainerVars, poolVars>>

\* Lines 134-136 for an exception leaving the loop: only WebSocketDisconnect
\* is caught; anything else leaves the handler without touching the manager.
Leave(c, exc) ==
    IF exc = "disconnect"
    THEN /\ active_connections' = ManagerDisconnect(c)
         /\ pc' = [pc EXCEPT ![c] = "closed"]
    ELSE /\ pc' = [pc EXCEPT ![c] = "failed"]
         /\ UNCHANGED active_connections

\* lines 98-132: one iteration of the while loop, from the text returned by
\* receive_text to the cursor update, or to the exception that ends it.
\* pred_pol is the model's output for the freshly perturbed spectrum;
\* sendResult is what send_text does ("sent", or the exception it raises).
Tick(c) ==
    /\ pc[c] = "active"
    /\ received[c] < MaxTicks
    /\ received' = [received EXCEPT ![c] = @ + 1]
    /\ \E msg \in Messages :
        IF Compute(c, msg) # "ok"
        THEN /\ lastTick' = [NoTick EXCEPT !.conn = c, !.msg = msg,
                                           !.outcome = Compute(c, msg),
                                           !.idx = idx[c]]
             /\ Leave(c, Compute(c, msg))
             /\ UNCHANGED <<outbox, idx>>
        ELSE \E sendResult \in {"sent", "disconnect", "send_error"} :
             IF sendResult # "sent"
             THEN /\ lastTick' = [NoTick EXCEPT !.conn = c,
                                                !.outcome = sendResult,
                                                !.idx = idx[c]]
                  /\ Leave(c, sendResult)
                  /\ UNCHANGED <<outbox, idx>>
             ELSE \E pred_pol \in PredValues :
                  /\ lastTick' = [conn |-> c, msg |-> msg, outcome |-> "sent",
                                  idx |-> idx[c],
                                  noise |-> NoiseOf(msg.config),
                                  threshold |-> ThresholdOf(msg.config),
                                  pred |-> pred_pol,
                                  alert |-> Alert(pred_pol, msg.config)]
                  /\ outbox' = [d \in Conns |->
                                  IF d \in SendTargets(c)
                                  THEN Append(outbox[d], c) ELSE outbox[d]]
                  /\ idx' = [idx EXCEPT ![c] = NextIdx(idx[c], poolSize)]
                  /\ UNCHANGED <<pc, active_connections>>
    /\ UNCHANGED <<defined, poolSize, httpLast>>
    /\ UNCHANGED <<reportVars, trainerVars, poolVars>>

\* lines 88-91: NameError when wavelengths_plot was never bound
GetConfig ==
    /\ httpLast' = IF "wavelengths_plot" \in defined THEN "ok" ELSE "error"
    /\ UNCHANGED <<defined, poolSize, pc, idx, active_connections, outbox,
                   received, lastTick>>
    /\ UNCHANGED <<reportVars, trainerVars, poolVars>>

\* ------------------------------------------- POST /api/report (143-174)
MaxSamples == 4      \* longest predicted_pol list explored
ReportThreshold == 13     \* threshold = 13.0

PolValues == {10, 12, 13, 14, 16}

RECURSIVE Sum(_)
\* sum(data.predicted_pol)
Sum(s) == IF s = <<>> THEN 0 ELSE s[1] + Sum(Tail(s))

\* line 156.  The quotient is kept exact, as the fraction num/den; the
\* literal 0 of the else branch is 0/1.
AvgPol(p) ==
    IF p # <<>> THEN [num |-> Sum(p), den |-> Len(p)] ELSE [num |-> 0, den |-> 1]

RECURSIVE CountBelow(_, _)
CountBelow(s, t) ==
    IF s = <<>> THEN 0
    ELSE (IF s[1] < t THEN 1 ELSE 0) + CountBelow(Tail(s), t)

RECURSIVE CountAtMost(_, _)
CountAtMost(s, t) ==
    IF s = <<>> THEN 0
    ELSE (IF s[1] <= t THEN 1 ELSE 0) + CountAtMost(Tail(s), t)

Breaches_inclusive(p) == CountAtMost(p, ReportThreshold)

\* lines 160-161
Breaches(p) == CountBelow(p, ReportThreshold)

NoReport == [done |-> FALSE, samples |-> 0, avg_pol |-> [num |-> 0, den |-> 1],
             breaches |-> 0]

ReportInit ==
    /\ predicted_pol \in UNION {[1..n -> PolValues] : n \in 0..MaxSamples}
    /\ report = NoReport

ReportParked ==
    /\ predicted_pol = <<>>
    /\ report = NoReport

\* lines 144-174: the three figures written by drawString
GenerateReport ==
    /\ ~report.done
    /\ report' = [done |-> TRUE,
                  samples |-> Len(predicted_pol),
                  avg_pol |-> AvgPol(predicted_pol),
                  breaches |-> Breaches(predicted_pol)]
    /\ UNCHANGED predicted_pol
    /\ UNCHANGED <<serverVars, trainerVars, poolVars>>

\* --------------------------------------------- trainer.py train_pls (51-69)
MaxScore == 1        \* CV scores range over 0..MaxScore
MaxComponents == 14       \* range(1, 15)

ScoreValues == 0..MaxScore

\* float('inf'): above every score
Inf == MaxScore + 1

Improves_orEqual(score, lowest) == score <= lowest

\* line 61
Improves(score, lowest) == score < lowest

TrainerInit ==
    /\ cv_i = 1
    /\ best_n = 1
    /\ lowest_mse = Inf
    /\ scores = <<>>
    /\ pls_n = 0

TrainerParked == TrainerInit

\* lines 58-63: one pass of the loop body; score is the mean of the five
\* fold errors returned by cross_val_score for n_components = cv_i
CrossValidate ==
    /\ cv_i <= MaxComponents
    /\ \E score \in ScoreValues :
        /\ scores' = Append(scores, score)
        /\ IF Improves(score, lowest_mse)
           THEN lowest_mse' = score /\ best_n' = cv_i
           ELSE UNCHANGED <<lowest_mse, best_n>>
    /\ cv_i' = cv_i + 1
    /\ UNCHANGED pls_n
    /\ UNCHANGED <<serverVars, reportVars, poolVars>>

\* lines 67-69
Refit ==
    /\ cv_i > MaxComponents
    /\ pls_n = 0
    /\ pls_n' = best_n
    /\ UNCHANGED <<cv_i, best_n, lowest_mse, scores>>
    /\ UNCHANGED <<serverVars, reportVars, poolVars>>

\* ------------------------- trainer.py main (94-125) and the server replay
MaxRows == 6         \* largest dataset explored
TestSizeDen == 5          \* test_size=0.2

\* train_test_split: n_test = ceil(0.2 * n), n_train = n - n_test
NTest(n) == (n + TestSizeDen - 1) \div TestSizeDen
NTrain(n) == n - NTest(n)

\* line 104: rows of the test part, in the order of the shuffled
\* permutation p (the first n_test entries; the train part follows)
TestRows(p) == [j \in 1..NTest(Len(p)) |-> p[j]]
TrainRows(p) == [j \in 1..NTrain(Len(p)) |-> p[NTest(Len(p)) + j]]

\* line 124: X[len(X_train):], the rows of X after the first len(X_train)
SavedXTestRaw(p) ==
    [j \in 1..(Len(p) - Len(TrainRows(p))) |-> Len(TrainRows(p)) + j]

\* line 125: y_test, the targets of the test rows
SavedYTest(p) == TestRows(p)

NoFiles == [X_test_raw |-> <<>>, y_test |-> <<>>]
NoPayload == [sent |-> FALSE, spectrum |-> 0, actual |-> 0]

PoolInit ==
    /\ n_rows \in 2..MaxRows
    /\ split = <<>>
    /\ saved = NoFiles
    /\ pool = NoFiles
    /\ replay_idx = 0
    /\ payload = NoPayload

PoolParked ==
    /\ n_rows = 2
    /\ split = <<>>
    /\ saved = NoFiles
    /\ pool = NoFiles
    /\ replay_idx = 0
    /\ payload = NoPayload

\* line 104: shuffle=True draws a permutation of the rows
TrainTestSplit ==
    /\ split = <<>>
    /\ \E p \in Permutations(1..n_rows) : split' = p
    /\ UNCHANGED <<n_rows, saved, pool, replay_idx, payload>>
    /\ UNCHANGED <<serverVars, reportVars, trainerVars>>

\* lines 124-125
SaveTestSet ==
    /\ split # <<>>
    /\ saved = NoFiles
    /\ saved' = [X_test_raw |-> SavedXTestRaw(split), y_test |-> SavedYTest(split)]
    /\ UNCHANGED <<n_rows, split, pool, replay_idx, payload>>
    /\ UNCHANGED <<serverVars, reportVars, trainerVars>>

\* server.py lines 45-46
LoadPool ==
    /\ saved # NoFiles
    /\ pool = NoFiles
    /\ pool' = saved
    /\ UNCHANGED <<n_rows, split, saved, replay_idx, payload>>
    /\ UNCHANGED <<serverVars, reportVars, trainerVars>>

\* server.py lines 107-108, 121, 124, 132 (Python indexes from 0)
ReplayTick ==
    /\ pool # NoFiles
    /\ payload' = [sent |-> TRUE,
                   spectrum |-> pool.X_test_raw[replay_idx + 1],
                   actual |-> pool.y_test[replay_idx + 1]]
    /\ replay_idx' = NextIdx(replay_idx, Len(pool.X_test_raw))
    /\ UNCHANGED <<n_rows, split, saved, pool>>
    /\ UNCHANGED <<serverVars, reportVars, trainerVars>>

\* ---------------------------------------------------------- specifications
ServerParked ==
    /\ defined = AllLoaded
    /\ poolSize = 1
    /\ pc = [c \in Conns |-> "init"]
    /\ idx = [c \in Conns |-> 0]
    /\ active_connections = <<>>
    /\ outbox = [c \in Conns |-> <<>>]
    /\ received = [c \in Conns |-> 0]
    /\ lastTick = NoTick
    /\ httpLast = "none"

Init == ServerInit /\ ReportParked /\ TrainerParked /\ PoolParked

Next ==
    \/ \E c \in Conns : Connect(c)
    \/ \E c \in Conns : Disconnect(c)
    \/ \E c \in Conns : Tick(c)
    \/ GetConfig

\* the serving process: connections, ticks, config queries
Spec == Init /\ [][Next]_vars

ReportSpecInit == ServerParked /\ ReportInit /\ TrainerParked /\ PoolParked

\* one report request
SpecReport == ReportSpecInit /\ [][GenerateReport]_vars

TrainerSpecInit == ServerParked /\ ReportParked /\ TrainerInit /\ PoolParked

TrainerNext == CrossValidate \/ Refit

\* one call of train_pls
SpecTrainer == TrainerSpecInit /\ [][TrainerNext]_vars

PoolSpecInit == ServerParked /\ ReportParked /\ TrainerParked /\ PoolInit

PoolNext == TrainTestSplit \/ SaveTestSet \/ LoadPool \/ ReplayTick

\* trainer.py main followed by a server session replaying the saved pool
SpecPool == PoolSpecInit /\ [][PoolNext]_vars

\* ------------------------------------------------------------------ claims
\* Number of texts produced by c's ticks, on any connection.
RECURSIVE CountOf(_, _)
CountOf(s, c) ==
    IF s = <<>> THEN 0 ELSE (IF s[1] = c THEN 1 ELSE 0) + CountOf(Tail(s), c)

RECURSIVE ProducedOn(_, _)
ProducedOn(c, ds) ==
    IF ds = {} THEN 0
    ELSE LET d == CHOOSE x \in ds : TRUE
         IN  CountOf(outbox[d], c) + ProducedOn(c, ds \ {d})

Produced(c) == ProducedOn(c, Conns)

Malformed(msg) ==
    \/ msg.kind \in {"invalid_json", "not_object"}
    \/ /\ msg.kind = "object"
       /\ "noiseLevel" \in DOMAIN msg.config
       /\ msg.config["noiseLevel"] < 0

\* C1: the cursor starts at 0, stays in [0, poolSize), and the k-th
\* successful tick of a session (k = 0, 1, ...) reads pool index
\* k mod poolSize; the lookup never raises IndexError.  A session's
\* successful ticks are the entries of its own outbox.
C1_CursorCyclic ==
    /\ \A c \in Conns :
        /\ idx[c] \in 0..(poolSize - 1)
        /\ idx[c] = Len(outbox[c]) % poolSize
        /\ Len(outbox[c]) = 0 => idx[c] = 0
    /\ lastTick.outcome = "sent" =>
        /\ lastTick.idx = (Len(outbox[lastTick.conn]) - 1) % poolSize
        /\ lastTick.idx \in 0..(poolSize - 1)
    /\ lastTick.outcome # "index_error"

\* A session has ticked more often than the pool is long, and its latest
\* tick read index 0 again.
C1_Witness ==
    /\ poolSize >= 2
    /\ lastTick.outcome = "sent"
    /\ Len(outbox[lastTick.conn]) > poolSize
    /\ lastTick.idx = 0

\* C2: a successful tick whose message omits noiseLevel (threshold) applies
\* the value applied by the session's previous tick; the first tick of a
\* session applies 2.0 (13.0).  The previous tick is lastTick when lastTick
\* is a tick of the same session.
C2_OmittedFieldKeepsPrevious ==
    [][\A c \in Conns :
        ( /\ defined = AllLoaded
          /\ received'[c] = received[c] + 1
          /\ lastTick'.conn = c
          /\ lastTick'.outcome = "sent" )
        =>
        /\ ( "noiseLevel" \notin DOMAIN lastTick'.msg.config =>
               lastTick'.noise =
                 IF received[c] = 0 THEN DefaultNoise
                 ELSE IF lastTick.conn = c THEN lastTick.noise
                 ELSE lastTick'.noise )
        /\ ( "threshold" \notin DOMAIN lastTick'.msg.config =>
               lastTick'.threshold =
                 IF received[c] = 0 THEN DefaultThreshold
                 ELSE IF lastTick.conn = c THEN lastTick.threshold
                 ELSE lastTick'.threshold )
      ]_vars

\* What the code does instead: an omitted field always takes the default.
OmittedFieldUsesDefault ==
    lastTick.outcome = "sent" =>
        /\ ( "noiseLevel" \notin DOMAIN lastTick.msg.config =>
               lastTick.noise = DefaultNoise )
        /\ ( "threshold" \notin DOMAIN lastTick.msg.config =>
               lastTick.threshold = DefaultThreshold )

\* C3: the registry holds exactly the sessions whose handler is still
\* running after a successful handshake, however the other handlers ended.
C3_RegistryIsRunningHandlers ==
    defined = AllLoaded =>
        /\ Range(active_connections) = {c \in Conns : pc[c] = "active"}
        /\ Len(active_connections) = Cardinality(Range(active_connections))

\* The part of C3 the code keeps: a client disconnect releases the slot.
DisconnectReleasesSlot ==
    \A c \in Conns : pc[c] \in {"init", "closed"} =>
        c \notin Range(active_connections)

\* C4: a malformed message fails its tick only: the session is still
\* Active afterwards and its cursor is where it was.
C4_MalformedFailsTickOnly ==
    [][\A c \in Conns :
        ( /\ defined = AllLoaded
          /\ pc[c] = "active"
          /\ received'[c] = received[c] + 1
          /\ lastTick'.conn = c
          /\ Malformed(lastTick'.msg) )
        => (pc'[c] = "active" /\ idx'[c] = idx[c])
      ]_vars

\* C5: after a failed startup no session is accepted and no tick or config
\* request is processed.
C5_FailedStartupServesNothing ==
    defined # AllLoaded =>
        /\ \A c \in Conns : pc[c] \notin {"active", "closed"}
        /\ active_connections = <<>>
        /\ \A c \in Conns : received[c] = 0
        /\ httpLast # "ok"

\* C6: the alert flag of an emitted payload is true iff predicted_pol is
\* strictly below the threshold the tick's message resolves to.
C6_AlertIffBelowThreshold ==
    lastTick.outcome = "sent" =>
        LET cfg == lastTick.msg.config
            thr == IF "threshold" \in DOMAIN cfg THEN cfg["threshold"]
                   ELSE DefaultThreshold
        IN  /\ lastTick.alert <=> (lastTick.pred < thr)
            /\ lastTick.pred = thr => ~lastTick.alert

\* A payload at the boundary, and not alerting.
C6_Witness ==
    /\ lastTick.outcome = "sent"
    /\ lastTick.pred = lastTick.threshold
    /\ "threshold" \in DOMAIN lastTick.msg.config
    /\ ~lastTick.alert

\* C7: every text produced by a tick of session s is sent on s's connection
\* and on no other, and a session produces at most one text per message it
\* received.
C7_OwnConnectionOnly ==
    \A c \in Conns :
        /\ \A i \in DOMAIN outbox[c] : outbox[c][i] = c
        /\ Produced(c) <= received[c]

\* Two registered sessions have both ticked, interleaved.
C7_Witness ==
    /\ NumConns >= 2
    /\ \A c \in {1, 2} : pc[c] = "active" /\ Len(outbox[c]) >= 2
    /\ lastTick.outcome = "sent"

\* C8: the report shows len(P) samples, the number of p < 13.0 as breaches,
\* and sum(P)/len(P) as average (0 for an empty P);
\* [10, 12, 14, 16] gives 2 breaches and an average of 13.
C8_ReportFigures ==
    report.done =>
        LET P == predicted_pol IN
        /\ report.samples = Len(P)
        /\ report.breaches = Cardinality({i \in DOMAIN P : P[i] < 13})
        /\ report.avg_pol.den # 0
        /\ P # <<>> => report.avg_pol.num * Len(P) = Sum(P) * report.avg_pol.den
        /\ P = <<>> => report.avg_pol.num = 0
        /\ P = <<10, 12, 14, 16>> =>
             /\ report.breaches = 2
             /\ report.avg_pol.num = 13 * report.avg_pol.den

C8_Witness ==
    /\ report.done
    /\ predicted_pol = <<10, 12, 14, 16>>
    /\ report.breaches = 2

C10_PoolPairsMatch ==
    /\ \A i \in DOMAIN saved.X_test_raw : saved.X_test_raw[i] = saved.y_test[i]
    /\ Len(saved.X_test_raw) = Len(saved.y_test)
    /\ payload.sent => payload.spectrum = payload.actual

====
